---- MODULE Spec2Model ----
(***************************************************************************)
(* The conversational relay pipeline of lyra-app:                          *)
(*   - the Relay Service (edge function lyra-chat, Deno.serve handler),    *)
(*   - the Conversation Controller (React component Chat: loadChatHistory, *)
(*     sendMessage), hosted by App (view switching),                       *)
(*   - the History Store (table chat_messages).                            *)
(*                                                                         *)
(* Text is a sequence of chunks (strings); the empty text is << >>.  A     *)
(* chunk " " is a whitespace character, so that String.trim is computed.   *)
(* A JSON value is a record [t |-> type, v |-> text].                      *)
(***************************************************************************)
EXTENDS Integers, Sequences, FiniteSets, TLC

\* ------------------------------------------------------------------ bounds
\* accepted submissions (sendMessage past its guard) in one run
MaxSends == 2
\* loadChatHistory invocations in one run
MaxLoads == 2
\* mounts of the Chat view in one run
MaxMounts == 2

\* ------------------------------------------------------------- JSON values
Undefined == [t |-> "undefined", v |-> << >>]

Null == [t |-> "null", v |-> << >>]

Str(s) == [t |-> "string", v |-> s]

Num(d) == [t |-> "number", v |-> <<d>>]

Bool(b) == [t |-> "boolean", v |-> <<b>>]

\* JavaScript truthiness, the test behind `!x` and `x || y`
Truthy(j) ==
    CASE j.t = "undefined" -> FALSE
      [] j.t = "null" -> FALSE
      [] j.t = "string" -> j.v # << >>
      [] j.t = "number" -> j.v # <<"0">>
      [] j.t = "boolean" -> j.v = <<"true">>
      [] OTHER -> TRUE

\* a || b
Or(a, b) == IF Truthy(a) THEN a ELSE b

IsSpace(c) == c = " "

RECURSIVE TrimStart(_)
TrimStart(s) ==
    IF s # << >> /\ IsSpace(Head(s)) THEN TrimStart(Tail(s)) ELSE s

RECURSIVE TrimEnd(_)
TrimEnd(s) ==
    IF s # << >> /\ IsSpace(s[Len(s)]) THEN TrimEnd(SubSeq(s, 1, Len(s) - 1)) ELSE s

\* String.prototype.trim
Trim(s) == TrimEnd(TrimStart(s))

\* ---------------------------------------------------------- Relay Service
corsHeaders ==
    [ AllowOrigin |-> "*",
      AllowMethods |-> "GET, POST, PUT, DELETE, OPTIONS",
      AllowHeaders |-> "Content-Type, Authorization, X-Client-Info, Apikey" ]

N8N_WEBHOOK_URL == "https://zuefer-kilincarslan-n8n.zk-ai.agency/webhook/lyra"

\* A response body: JSON.stringify of an object with some of these fields
\* (absent fields are Undefined), or no body at all.
NoBody == [kind |-> "none", error |-> Undefined, success |-> Undefined,
           response |-> Undefined, details |-> Undefined]

JsonBody(e, s, r, d) ==
    [kind |-> "json", error |-> e, success |-> s, response |-> r, details |-> d]

\* { ...corsHeaders, "Content-Type": "application/json" }
JsonHeaders ==
    [k \in DOMAIN corsHeaders \cup {"ContentType"} |->
        IF k = "ContentType" THEN "application/json" ELSE corsHeaders[k]]

\* new Response(body, {status, headers}); outbound is the sequence of calls
\* the handler made to N8N_WEBHOOK_URL, log what it wrote with console.error
MkResponse(status, headers, body, outbound, log) ==
    [status |-> status, headers |-> headers, body |-> body,
     outbound |-> outbound, log |-> log]

MissingFields ==
    JsonBody(Str(<<"Missing required fields">>), Undefined, Undefined, Undefined)

ConfigError ==
    JsonBody(Undefined, Bool("false"),
             Str(<<"Service configuration error. Please contact support.">>), Undefined)

RelayFailure ==
    JsonBody(Undefined, Bool("false"),
             Str(<<"Failed to process your message. Please try again.">>), Undefined)

Success(r) == JsonBody(Undefined, Bool("true"), r, Undefined)

InternalError(msg) ==
    JsonBody(Str(<<"Internal server error">>), Undefined, Undefined, Str(msg))

Caught_AsRelayFailure(msg, outbound) ==
    MkResponse(502, JsonHeaders, RelayFailure, outbound,
               <<"Error in lyra-chat function:", msg>>)

Caught_NoCors(msg, outbound) ==
    MkResponse(500, [ContentType |-> "application/json"], InternalError(msg), outbound,
               <<"Error in lyra-chat function:", msg>>)

\* the catch block of the handler
Caught(msg, outbound) ==
    MkResponse(500, JsonHeaders, InternalError(msg), outbound,
               <<"Error in lyra-chat function:", msg>>)

\* the fetch to the webhook: url, the auth header and the forwarded fields
OutboundCall(token, message, userId) ==
    [url |-> N8N_WEBHOOK_URL, auth |-> token, message |-> message, userId |-> userId]

AfterFetch_Leak(up, outbound) ==
    IF up.kind = "throw"
    THEN Caught(<<"fetch failed">>, outbound)
    ELSE IF ~up.ok
    THEN MkResponse(502, JsonHeaders, [RelayFailure EXCEPT !.details = Str(up.text)],
                    outbound, <<"n8n webhook failed:">> \o up.text)
    ELSE IF up.body = "invalid"
    THEN Caught(<<"Unexpected token">>, outbound)
    ELSE IF up.body = "null"
    THEN Caught(<<"Cannot read properties of null">>, outbound)
    ELSE MkResponse(200, JsonHeaders,
                    Success(Or(up.response, Str(<<"Message received and processed">>))),
                    outbound, << >>)

AfterFetch_NoPlaceholder(up, outbound) ==
    IF up.kind = "throw"
    THEN Caught(<<"fetch failed">>, outbound)
    ELSE IF ~up.ok
    THEN MkResponse(502, JsonHeaders, RelayFailure, outbound,
                    <<"n8n webhook failed:">> \o up.text)
    ELSE IF up.body = "invalid"
    THEN Caught(<<"Unexpected token">>, outbound)
    ELSE IF up.body = "null"
    THEN Caught(<<"Cannot read properties of null">>, outbound)
    ELSE MkResponse(200, JsonHeaders, Success(up.response), outbound, << >>)

\* What follows the await of the outbound fetch.  up is what the external
\* endpoint does: up.kind = "throw" (unreachable, fetch rejects) or "resp"
\* with up.ok (2xx or not), up.body in {"invalid", "null", "object"},
\* up.response the reply field and up.text the raw body text.
AfterFetch(up, outbound) ==
    IF up.kind = "throw"
    THEN Caught(<<"fetch failed">>, outbound)
    ELSE IF ~up.ok
    THEN MkResponse(502, JsonHeaders, RelayFailure, outbound,
                    <<"n8n webhook failed:">> \o up.text)
    ELSE IF up.body = "invalid"
    THEN Caught(<<"Unexpected token">>, outbound)
    ELSE IF up.body = "null"
    THEN Caught(<<"Cannot read properties of null">>, outbound)
    ELSE MkResponse(200, JsonHeaders,
                    Success(Or(up.response, Str(<<"Message received and processed">>))),
                    outbound, << >>)

FieldsMissing_Both(message, userId) == ~Truthy(message) /\ ~Truthy(userId)

\* the test `!message || !userId`
FieldsMissing(message, userId) == ~Truthy(message) \/ ~Truthy(userId)

TokenMissing_OnlyUnset(token) == token = Undefined

\* the test `!WEBHOOK_AUTH_TOKEN`
TokenMissing(token) == ~Truthy(token)

Handler_ReadsFirst(req, token, up) ==
    IF req.body = "invalid"
    THEN Caught(<<"Unexpected token">>, << >>)
    ELSE IF req.body = "null"
    THEN Caught(<<"Cannot destructure property of null">>, << >>)
    ELSE IF req.method = "OPTIONS"
    THEN MkResponse(200, corsHeaders, NoBody, << >>, << >>)
    ELSE IF FieldsMissing(req.message, req.userId)
    THEN MkResponse(400, JsonHeaders, MissingFields, << >>, << >>)
    ELSE IF TokenMissing(token)
    THEN MkResponse(500, JsonHeaders, ConfigError, << >>,
                    <<"WEBHOOK_AUTH_TOKEN is not configured">>)
    ELSE AfterFetch(up, <<OutboundCall(token, req.message, req.userId)>>)

\* The Deno.serve handler.  req.method; req.body in {"invalid", "null",
\* "object"} is what req.json() finds; req.message and req.userId are the
\* fields of the parsed object.
Handler(req, token, up) ==
    IF req.method = "OPTIONS"
    THEN MkResponse(200, corsHeaders, NoBody, << >>, << >>)
    ELSE IF req.body = "invalid"
    THEN Caught(<<"Unexpected token">>, << >>)
    ELSE IF req.body = "null"
    THEN Caught(<<"Cannot destructure property of null">>, << >>)
    ELSE IF FieldsMissing(req.message, req.userId)
    THEN MkResponse(400, JsonHeaders, MissingFields, << >>, << >>)
    ELSE IF TokenMissing(token)
    THEN MkResponse(500, JsonHeaders, ConfigError, << >>,
                    <<"WEBHOOK_AUTH_TOKEN is not configured">>)
    ELSE AfterFetch(up, <<OutboundCall(token, req.message, req.userId)>>)

\* response.ok
Ok(res) == res.status >= 200 /\ res.status <= 299

\* ------------------------------------------------------------------ state
VARIABLES
    WEBHOOK_AUTH_TOKEN, \* Deno.env.get("WEBHOOK_AUTH_TOKEN"), read once per process
    relay,          \* the last request the Relay Service served: <<[req, up, res]>>
    user,           \* useAuth().user: the id of the signed-in user
    currentView,    \* App: which page is rendered
    inst,           \* how many times Chat has been mounted (the live instance)
    messages,       \* Chat: useState<ChatMessage[]>([])
    inputMessage,   \* Chat: useState('')
    loading,        \* Chat: useState(false)
    loadingHistory, \* Chat: useState(true)
    sends,          \* the sendMessage invocations that passed the guard, in order
    loads,          \* the loadChatHistory invocations, in order
    store,          \* table chat_messages, in created_at order
    uuids,          \* uuids drawn so far (crypto.randomUUID, gen_random_uuid)
    now,            \* the clock behind new Date() and now()
    event           \* "sendMessage" or "sendMessage: return" right after a call of
                    \* sendMessage (accepted or returned early), "" otherwise

vars == <<WEBHOOK_AUTH_TOKEN, relay, user, currentView, inst, messages, inputMessage,
          loading, loadingHistory, sends, loads, store, uuids, now, event>>

\* --------------------------------------------------------- the environment
Users == {"u1", "u2"}

\* what the user may have typed into the input field
Inputs == {<<" ">>, <<" ", "a", " ">>}

\* values of the environment variable WEBHOOK_AUTH_TOKEN
Tokens == {Undefined, Str(<< >>), Str(<<"secret">>)}

\* what the external endpoint may do with a call
Upstream(kind, ok, body, response, text) ==
    [kind |-> kind, ok |-> ok, body |-> body, response |-> response, text |-> text]

Unreachable == Upstream("throw", FALSE, "invalid", Undefined, << >>)

\* the outcomes met by the controller's calls: unreachable, an error
\* status, a body that is not JSON, a reply
Ups ==
    { Unreachable,
      Upstream("resp", FALSE, "object", Undefined, <<"upstream error A">>),
      Upstream("resp", TRUE, "invalid", Undefined, <<"<html>">>),
      Upstream("resp", TRUE, "object", Str(<<"R">>), <<"{response}">>) }

\* what the controller's fetch of the relay may meet: the fetch rejects, the
\* relay's response arrives, or a 2xx response whose body is not JSON arrives
Nets == {"throw", "relay", "garbled"}

Garbled == MkResponse(200, corsHeaders, [NoBody EXCEPT !.kind = "text"], << >>, << >>)

\* ---------------------------------------------------------- History Store
\* a row of chat_messages, which is also a ChatMessage of the client
Row(id, user_id, message, response, created_at) ==
    [id |-> id, user_id |-> user_id, message |-> message, response |-> response,
     created_at |-> created_at, metadata |-> << >>]

EqUser_All(rows, id) == rows

\* .eq('user_id', id)
EqUser(rows, id) == SelectSeq(rows, LAMBDA r : r.user_id = id)

\* rows with r inserted by created_at, after the rows not later than it
RECURSIVE InsertByCreatedAt(_, _)
InsertByCreatedAt(rows, r) ==
    IF rows = << >> THEN <<r>>
    ELSE IF Head(rows).created_at <= r.created_at
         THEN <<Head(rows)>> \o InsertByCreatedAt(Tail(rows), r)
         ELSE <<r>> \o rows

\* .order('created_at', { ascending: true })
RECURSIVE OrderByCreatedAt(_)
OrderByCreatedAt(rows) ==
    IF rows = << >> THEN << >>
    ELSE InsertByCreatedAt(OrderByCreatedAt(SubSeq(rows, 1, Len(rows) - 1)), rows[Len(rows)])

SelectHistory_Blanked(rows, id) ==
    [k \in DOMAIN OrderByCreatedAt(EqUser(rows, id)) |->
        [OrderByCreatedAt(EqUser(rows, id))[k] EXCEPT !.response = Null]]

\* the select of loadChatHistory
SelectHistory(rows, id) == OrderByCreatedAt(EqUser(rows, id))

\* a row written in an earlier session
HistoryRow(n, u) == Row(n, u, <<"h">>, Str(<<"H">>), n)

\* the table when the page is opened: another account has history, the
\* signed-in one has none yet
InitStores == { <<HistoryRow(1, "u2")>> }

\* ------------------------------------------------ Conversation Controller
SendReturnsEarly_NoLoading(input, ld) == ~Truthy(Str(Trim(input)))

SendReturnsEarly_NoTrim(input, ld) == ~Truthy(Str(input)) \/ ld

\* the guard of sendMessage: `!inputMessage.trim() || loading` returns
SendReturnsEarly(input, ld) == ~Truthy(Str(Trim(input))) \/ ld

\* crypto.randomUUID() and gen_random_uuid(): the n-th uuid drawn
Uuid(n) == n

\* the provisional entry
TempMessage(id, uid, userMessage, t) == Row(id, uid, userMessage, Null, t)

ErrorReply == Str(<<"Sorry, there was an error processing your message. Please try again.">>)

\* prev.filter((m) => m.id !== id)
FilterOut(prev, id) == SelectSeq(prev, LAMBDA m : m.id # id)

ReplaceBySaved_InPlace(prev, temp, savedMessage) ==
    [k \in DOMAIN prev |->
        IF prev[k].id = temp.id
        THEN [prev[k] EXCEPT !.response = savedMessage.response]
        ELSE prev[k]]

ReplaceBySaved_KeepTemp(prev, temp, savedMessage) == Append(prev, savedMessage)

\* the updater of the success path
ReplaceBySaved(prev, temp, savedMessage) == Append(FilterOut(prev, temp.id), savedMessage)

ReplaceByError_Drop(prev, temp) == FilterOut(prev, temp.id)

ReplaceByError_Unchanged(prev, temp) == prev

ReplaceByError_Append(prev, temp) == Append(prev, [temp EXCEPT !.response = ErrorReply])

\* the updater of the catch block
ReplaceByError(prev, temp) ==
    Append(FilterOut(prev, temp.id), [temp EXCEPT !.response = ErrorReply])

AssistantResponse_Raw(data) == data.response

\* data.response || 'No response received'
AssistantResponse(data) == Or(data.response, Str(<<"No response received">>))

\* the body of the fetch of sendMessage
RelayRequest(userMessage, uid) ==
    [method |-> "POST", body |-> "object", message |-> Str(userMessage), userId |-> Str(<<uid>>)]

\* the row value of the insert of sendMessage (the store sets id and created_at)
InsertValue(uid, userMessage, assistantResponse) ==
    [user_id |-> uid, message |-> userMessage, response |-> assistantResponse]

\* a set-state call reaches only the instance that made it, while it is mounted
Live(n) == currentView = "chat" /\ n = inst

\* the form is rendered once the history has loaded
FormRendered == currentView = "chat" /\ ~loadingHistory

\* An invocation of sendMessage that passed the guard: its closure (the
\* instance, user, userMessage, tempMessage), where it stands (pc), what
\* the awaits gave it (assistantResponse, saved, saveError), and its record:
\* before, the length of the list when it was called; fetches and inserts,
\* the requests it has issued; finalized, the updaters it has applied.
Send(n, uid, userMessage, temp, before) ==
    [inst |-> n, user |-> uid, userMessage |-> userMessage, temp |-> temp, pc |-> "fetch",
     assistantResponse |-> Undefined, saved |-> << >>, saveError |-> FALSE,
     before |-> before, finalized |-> << >>, fetches |-> 1, inserts |-> 0]

\* savedMessage: the row the insert returned, null (a row without id or
\* reply) when it returned none
SavedMessage(s) == IF s.saved = << >> THEN Row(0, "", << >>, Null, 0) ELSE s.saved[1]

SaveFailed_Ignored(s) == FALSE

\* `if (saveError) throw saveError`
SaveFailed(s) == s.saveError

\* an invocation of loadChatHistory
Load(n, uid) == [inst |-> n, user |-> uid, pc |-> "select", data |-> << >>, error |-> FALSE]

Init ==
    /\ WEBHOOK_AUTH_TOKEN \in Tokens
    /\ relay = << >>
    /\ user = "u1"
    /\ currentView = "chat"
    /\ inst = 1
    /\ messages = << >>
    /\ inputMessage = << >>
    /\ loading = FALSE
    /\ loadingHistory = TRUE
    /\ sends = << >>
    /\ loads = <<Load(1, user)>>
    /\ store \in InitStores
    /\ uuids = Len(store)
    /\ now = Len(store)
    /\ event = ""

\* onChange of the input field: setInputMessage(e.target.value).  The
\* disabled attributes of the controls are not guards of the handlers: the
\* model lets the handlers be called whenever the form is rendered.
SetInputMessage(v) ==
    /\ FormRendered
    /\ inputMessage' = v
    /\ event' = ""
    /\ UNCHANGED <<WEBHOOK_AUTH_TOKEN, relay, user, currentView, inst, messages, loading,
                   loadingHistory, sends, loads, store, uuids, now>>

\* sendMessage up to its first await: the guard, the provisional entry and
\* the fetch of the relay
SendMessage ==
    /\ FormRendered
    /\ IF SendReturnsEarly(inputMessage, loading)
       THEN /\ event' = "sendMessage: return"
            /\ UNCHANGED <<messages, inputMessage, loading, sends, uuids, now>>
       ELSE /\ Len(sends) < MaxSends
            /\ LET userMessage == Trim(inputMessage)
                   tempMessage == TempMessage(Uuid(uuids + 1), user, userMessage, now + 1)
               IN  /\ inputMessage' = << >>
                   /\ loading' = TRUE
                   /\ messages' = Append(messages, tempMessage)
                   /\ sends' = Append(sends, Send(inst, user, userMessage, tempMessage,
                                                   Len(messages)))
            /\ uuids' = uuids + 1
            /\ now' = now + 1
            /\ event' = "sendMessage"
    /\ UNCHANGED <<WEBHOOK_AUTH_TOKEN, relay, user, currentView, inst, loadingHistory,
                   loads, store>>

Catch_NoFinally(i) ==
    /\ sends' = [sends EXCEPT ![i].pc = "done", ![i].finalized = Append(@, "error")]
    /\ IF Live(sends[i].inst)
       THEN /\ messages' = ReplaceByError(messages, sends[i].temp)
            /\ UNCHANGED loading
       ELSE UNCHANGED <<messages, loading>>

Catch_Retry(i) ==
    IF sends[i].pc = "fetch" /\ sends[i].fetches < 2
    THEN /\ sends' = [sends EXCEPT ![i].fetches = @ + 1]
         /\ UNCHANGED <<messages, loading>>
    ELSE /\ sends' = [sends EXCEPT ![i].pc = "done", ![i].finalized = Append(@, "error")]
         /\ IF Live(sends[i].inst)
            THEN /\ messages' = ReplaceByError(messages, sends[i].temp)
                 /\ loading' = FALSE
            ELSE UNCHANGED <<messages, loading>>

\* the catch block and the finally block of sendMessage
Catch(i) ==
    /\ sends' = [sends EXCEPT ![i].pc = "done", ![i].finalized = Append(@, "error")]
    /\ IF Live(sends[i].inst)
       THEN /\ messages' = ReplaceByError(messages, sends[i].temp)
            /\ loading' = FALSE
       ELSE UNCHANGED <<messages, loading>>

\* sendMessage from the answer of the fetch to its next await
FetchReturn(i) ==
    /\ sends[i].pc = "fetch"
    /\ \E net \in Nets, up \in Ups :
         LET response == IF net = "garbled" THEN Garbled
                         ELSE Handler(RelayRequest(sends[i].userMessage, sends[i].user),
                                      WEBHOOK_AUTH_TOKEN, up)
         IN  IF net = "throw" THEN Catch(i)
             ELSE IF ~Ok(response) THEN Catch(i)
             ELSE IF response.body.kind # "json" THEN Catch(i)
             ELSE /\ sends' = [sends EXCEPT ![i].pc = "insert",
                                 ![i].assistantResponse = AssistantResponse(response.body),
                                 ![i].inserts = @ + 1]
                  /\ UNCHANGED <<messages, loading>>
    /\ event' = ""
    /\ UNCHANGED <<WEBHOOK_AUTH_TOKEN, relay, user, currentView, inst, inputMessage,
                   loadingHistory, loads, store, uuids, now>>

\* the store executes the insert of sendMessage: it writes the row and
\* returns it, or it refuses and returns an error
InsertExec(i) ==
    /\ sends[i].pc = "insert"
    /\ \E ok \in BOOLEAN :
         IF ok
         THEN LET v == InsertValue(sends[i].user, sends[i].userMessage,
                                   sends[i].assistantResponse)
                  row == Row(Uuid(uuids + 1), v.user_id, v.message, v.response, now + 1)
              IN  /\ store' = Append(store, row)
                  /\ sends' = [sends EXCEPT ![i].pc = "inserted", ![i].saved = <<row>>]
                  /\ uuids' = uuids + 1
                  /\ now' = now + 1
         ELSE /\ sends' = [sends EXCEPT ![i].pc = "inserted", ![i].saveError = TRUE]
              /\ UNCHANGED <<store, uuids, now>>
    /\ event' = ""
    /\ UNCHANGED <<WEBHOOK_AUTH_TOKEN, relay, user, currentView, inst, messages,
                   inputMessage, loading, loadingHistory, loads>>

\* sendMessage from the answer of the insert to its end
InsertReturn(i) ==
    /\ sends[i].pc = "inserted"
    /\ IF SaveFailed(sends[i])
       THEN Catch(i)
       ELSE /\ sends' = [sends EXCEPT ![i].pc = "done",
                                      ![i].finalized = Append(@, "success")]
            /\ IF Live(sends[i].inst)
               THEN /\ messages' = ReplaceBySaved(messages, sends[i].temp,
                                              SavedMessage(sends[i]))
                    /\ loading' = FALSE
               ELSE UNCHANGED <<messages, loading>>
    /\ event' = ""
    /\ UNCHANGED <<WEBHOOK_AUTH_TOKEN, relay, user, currentView, inst, inputMessage,
                   loadingHistory, loads, store, uuids, now>>

Views == {"chat", "accounts"}

\* Layout's onViewChange(view) = setCurrentView(view): leaving the chat
\* unmounts Chat and drops its state (the variables then hold the initial
\* values of useState); coming back mounts a new Chat, whose effect calls
\* loadChatHistory
OnViewChange(view) ==
    /\ view # currentView
    /\ currentView' = view
    /\ IF view = "chat"
       THEN /\ inst < MaxMounts
            /\ Len(loads) < MaxLoads
            /\ inst' = inst + 1
            /\ loads' = Append(loads, Load(inst + 1, user))
       ELSE UNCHANGED <<inst, loads>>
    /\ loadingHistory' = TRUE
    /\ messages' = << >>
    /\ inputMessage' = << >>
    /\ loading' = FALSE
    /\ event' = ""
    /\ UNCHANGED <<WEBHOOK_AUTH_TOKEN, relay, user, sends, store, uuids, now>>

\* useEffect(..., [user]): the auth context hands out a new user object
\* for the same account, and the effect calls loadChatHistory again
UserEffect ==
    /\ currentView = "chat"
    /\ Len(loads) < MaxLoads
    /\ loads' = Append(loads, Load(inst, user))
    /\ event' = ""
    /\ UNCHANGED <<WEBHOOK_AUTH_TOKEN, relay, user, currentView, inst, messages,
                   inputMessage, loading, loadingHistory, sends, store, uuids, now>>

\* the store executes the select of loadChatHistory
SelectExec(k) ==
    /\ loads[k].pc = "select"
    /\ \E ok \in BOOLEAN :
         loads' = [loads EXCEPT ![k].pc = "selected",
                                ![k].error = ~ok,
                                ![k].data = IF ok THEN SelectHistory(store, loads[k].user)
                                            ELSE << >>]
    /\ event' = ""
    /\ UNCHANGED <<WEBHOOK_AUTH_TOKEN, relay, user, currentView, inst, messages,
                   inputMessage, loading, loadingHistory, sends, store, uuids, now>>

\* loadChatHistory from the answer of the select to its end
LoadReturn(k) ==
    /\ loads[k].pc = "selected"
    /\ loads' = [loads EXCEPT ![k].pc = "done", ![k].data = << >>, ![k].error = FALSE]
    /\ IF Live(loads[k].inst)
       THEN /\ messages' = IF loads[k].error THEN messages ELSE loads[k].data
            /\ loadingHistory' = FALSE
       ELSE UNCHANGED <<messages, loadingHistory>>
    /\ event' = ""
    /\ UNCHANGED <<WEBHOOK_AUTH_TOKEN, relay, user, currentView, inst, inputMessage,
                   loading, sends, store, uuids, now>>

Next ==
    \/ \E v \in Inputs : SetInputMessage(v)
    \/ SendMessage
    \/ \E i \in DOMAIN sends : FetchReturn(i)
    \/ \E i \in DOMAIN sends : InsertExec(i)
    \/ \E i \in DOMAIN sends : InsertReturn(i)
    \/ \E view \in Views : OnViewChange(view)
    \/ UserEffect
    \/ \E k \in DOMAIN loads : SelectExec(k)
    \/ \E k \in DOMAIN loads : LoadReturn(k)

Spec == Init /\ [][Next]_vars

\* an await of sendMessage settles: the fetch of the relay returns or
\* rejects, the store executes the insert, or the insert's promise resolves
Settle ==
    \E i \in DOMAIN sends : FetchReturn(i) \/ InsertExec(i) \/ InsertReturn(i)

\* while an await is outstanding, one of them settles in the end; a send
\* has at most three awaits to settle, so every await settles
Settles == WF_vars(Settle)

SpecLive == Spec /\ Settles

\* a 2xx answer to the fetch of sendMessage whose JSON body has no reply:
\* the response field is absent or the empty string
Bare == {JsonBody(Undefined, Bool("true"), Undefined, Undefined),
         JsonBody(Undefined, Bool("true"), Str(<< >>), Undefined)}

\* sendMessage from such an answer to its next await; the first call of a
\* run is the one that may meet it
FetchReturnBare(i) ==
    /\ sends[i].pc = "fetch"
    /\ i = 1
    /\ \E body \in Bare :
         sends' = [sends EXCEPT ![i].pc = "insert",
                                ![i].assistantResponse = AssistantResponse(body),
                                ![i].inserts = @ + 1]
    /\ event' = ""
    /\ UNCHANGED <<WEBHOOK_AUTH_TOKEN, relay, user, currentView, inst, messages,
                   inputMessage, loading, loadingHistory, loads, store, uuids, now>>

NextBare == Next \/ \E i \in DOMAIN sends : FetchReturnBare(i)

SpecBare == Init /\ [][NextBare]_vars

\* the [user] effect runs loadChatHistory once more when MaxLoads
\* invocations have been made: a run in which every mount has loaded the
\* history and the effect fires again after that
UserEffectAgain ==
    /\ currentView = "chat"
    /\ Len(loads) = MaxLoads
    /\ loads' = Append(loads, Load(inst, user))
    /\ event' = ""
    /\ UNCHANGED <<WEBHOOK_AUTH_TOKEN, relay, user, currentView, inst, messages,
                   inputMessage, loading, loadingHistory, sends, store, uuids, now>>

NextReload == Next \/ UserEffectAgain

SpecReload == Init /\ [][NextReload]_vars

\* ------------------------------------------- the Relay Service on its own
\* a request of any client
Request(method, body, message, userId) ==
    [method |-> method, body |-> body, message |-> message, userId |-> userId]

Requests ==
    { Request(m, "object", msg, uid) :
        m \in {"POST", "OPTIONS"},
        msg \in {Undefined, Null, Str(<< >>), Str(<<"hi">>), Num("0"), Num("7")},
        uid \in {Undefined, Str(<< >>), Str(<<"u1">>)} }
    \cup { Request(m, b, Undefined, Undefined) :
             m \in {"POST", "OPTIONS"}, b \in {"invalid", "null"} }

RelayUps ==
    Ups \cup
    { Upstream("resp", FALSE, "object", Undefined, <<"upstream error B">>),
      Upstream("resp", TRUE, "object", Undefined, <<"{}">>),
      Upstream("resp", TRUE, "null", Undefined, <<"null">>),
      Upstream("resp", TRUE, "object", Null, <<"{response: null}">>),
      Upstream("resp", TRUE, "object", Str(<< >>), <<"{response: ''}">>),
      Upstream("resp", TRUE, "object", Num("0"), <<"{response: 0}">>),
      Upstream("resp", TRUE, "object", Str(<<"R2">>), <<"{response}">>) }

\* Deno.serve: one request is handled
Serve(req, up) ==
    /\ relay' = <<[req |-> req, up |-> up, res |-> Handler(req, WEBHOOK_AUTH_TOKEN, up)]>>
    /\ UNCHANGED <<WEBHOOK_AUTH_TOKEN, user, currentView, inst, messages, inputMessage,
                   loading, loadingHistory, sends, loads, store, uuids, now, event>>

NextRelay == \E req \in Requests, up \in RelayUps : Serve(req, up)

SpecRelay == Init /\ [][NextRelay]_vars

\* ------------------------------------------------------------------ claims
\* the set of elements of a sequence
Range(q) == {q[k] : k \in DOMAIN q}

\* the step was a call of sendMessage
SendMessageCalled == event' \in {"sendMessage", "sendMessage: return"}

\* the step applied the first updater of send i: "success" or "error"
Finalizes(i, how) ==
    /\ sends[i].finalized = << >>
    /\ sends'[i].finalized # << >>
    /\ sends'[i].finalized[1] = how

\* the entries of a list that carry id
WithId(list, id) == {k \in DOMAIN list : list[k].id = id}

\* a text of whitespace only (the empty text included)
Blank(text) == \A k \in DOMAIN text : text[k] = " "

\* the rows of a table written for send i: its user and prompt, written
\* after it was called, and not the row another send got back
RowsFor(rows, i) ==
    {r \in Range(rows) :
        /\ r.user_id = sends[i].user
        /\ r.message = sends[i].userMessage
        /\ r.created_at > sends[i].temp.created_at
        /\ \A j \in DOMAIN sends : j # i => sends[j].saved # <<r>>}

\* C1: while the pending flag is set, a call of sendMessage returns early:
\* the list, the input, the flag and the store are unchanged, and no send
\* (hence no relay call and no insert) is started.
C1_PendingRejects ==
    [][(loading /\ SendMessageCalled)
         => /\ event' = "sendMessage: return"
            /\ UNCHANGED <<messages, inputMessage, loading, sends, store>>]_vars

C1_Witness ==
    /\ loading
    /\ ~Blank(inputMessage)
    /\ event = "sendMessage: return"
    /\ \E i \in DOMAIN sends : sends[i].pc = "fetch" /\ Live(sends[i].inst)
    /\ \E k \in DOMAIN messages : messages[k].response = Null

\* C2: when a send ends in failure (the catch block ran, whatever threw),
\* the store holds no row for that turn, and in the list of the Chat that
\* made the call (while it is mounted) exactly one entry carries the
\* temporary id, its reply being the fixed error text.
C2_FailureIsEphemeral ==
    [][\A i \in DOMAIN sends :
         Finalizes(i, "error")
           => /\ RowsFor(store', i) = {}
              /\ store' = store
              /\ Live(sends[i].inst)
                   => /\ Cardinality(WithId(messages', sends[i].temp.id)) = 1
                      /\ \A k \in WithId(messages', sends[i].temp.id) :
                           /\ messages'[k].response = Str(<<"Sorry, there was an error processing your message. Please try again.">>)
                           /\ messages'[k].message = sends[i].userMessage]_vars

C2_Witness ==
    \E i \in DOMAIN sends :
        /\ sends[i].finalized = <<"error">>
        /\ sends[i].saveError
        /\ Live(sends[i].inst)
        /\ \E k \in DOMAIN messages :
             messages[k].id = sends[i].temp.id /\ messages[k].response = ErrorReply
        /\ \E j \in DOMAIN sends : sends[j].finalized = <<"error">> /\ sends[j].inserts = 0

\* C3: when a send ends in success (the relay answered 2xx with a reply and
\* the insert returned a row), the store holds the row {user, prompt,
\* reply} with a store-assigned id, and the list of the Chat that made the
\* call (while it is mounted) ends with that row and has no entry with the
\* temporary id.
C3_SuccessIsPersisted ==
    [][\A i \in DOMAIN sends :
         Finalizes(i, "success")
           => /\ sends[i].saved # << >>
              /\ sends[i].saved[1] \in Range(store')
              /\ sends[i].saved[1].user_id = sends[i].user
              /\ sends[i].saved[1].message = sends[i].userMessage
              /\ sends[i].saved[1].response = sends[i].assistantResponse
              /\ sends[i].saved[1].response = Str(<<"R">>)
              /\ sends[i].saved[1].id # sends[i].temp.id
              /\ Live(sends[i].inst)
                   => /\ messages' # << >>
                      /\ messages'[Len(messages')] = sends[i].saved[1]
                      /\ WithId(messages', sends[i].temp.id) = {}]_vars

C3_Witness ==
    \E i \in DOMAIN sends :
        /\ sends[i].finalized = <<"success">>
        /\ Live(sends[i].inst)
        /\ messages # << >>
        /\ messages[Len(messages)].response = Str(<<"R">>)
        /\ messages[Len(messages)] \in Range(store)

C5_ExactlyOneFinalization ==
    \A i \in DOMAIN sends :
        /\ Len(sends[i].finalized) <= 1
        /\ sends[i].pc = "done" <=> Len(sends[i].finalized) = 1
        /\ sends[i].finalized = <<"success">>
             => sends[i].saved # << >> /\ sends[i].saved[1] \in Range(store)
        /\ sends[i].finalized = <<"error">> => RowsFor(store, i) = {}

C5_Witness ==
    /\ Len(sends) = 2
    /\ sends[1].finalized = <<"error">>
    /\ sends[1].saveError
    /\ sends[2].finalized = <<"success">>

\* C6 as stated: from the call of an accepted sendMessage on, pending or
\* resolved, the list of that Chat is one entry longer than before the
\* call, whatever loadChatHistory does meanwhile.
C6_ExactlyOneEntry ==
    (sends # << >> /\ Live(sends[Len(sends)].inst))
        => Len(messages) = sends[Len(sends)].before + 1

\* C7: the list never holds two entries with the same temporary id.
C7_UniqueTempIds ==
    \A i \in DOMAIN sends : Cardinality(WithId(messages, sends[i].temp.id)) <= 1

C7_Witness ==
    /\ Len(sends) = 2
    /\ Len(messages) = 2
    /\ messages[1].id = sends[1].temp.id
    /\ messages[1].response = ErrorReply
    /\ messages[2].id = sends[2].temp.id
    /\ messages[2].response = Null

\* C8: a call of sendMessage with an empty or whitespace-only input returns
\* early: the list, the flag and the input are unchanged, and no send
\* (hence no relay call and no insert) is started.
C8_BlankRejected ==
    [][(Blank(inputMessage) /\ SendMessageCalled)
         => /\ event' = "sendMessage: return"
            /\ UNCHANGED <<messages, inputMessage, loading, sends, store>>]_vars

C8_Witness ==
    /\ ~loading
    /\ inputMessage = <<" ">>
    /\ event = "sendMessage: return"
    /\ sends = << >>

\* the secret is not configured: the variable is unset or empty
NotConfigured == WEBHOOK_AUTH_TOKEN = Undefined \/ WEBHOOK_AUTH_TOKEN = Str(<< >>)

\* a field of the request body is missing or empty
MissingOrEmpty(j) == j = Undefined \/ j = Null \/ j = Str(<< >>)

\* a field of the request body is a non-empty string
NonEmptyString(j) == j.t = "string" /\ j.v # << >>

\* the request relay[1] is a POST whose body parses to a JSON object
PostedObject == relay[1].req.method = "POST" /\ relay[1].req.body = "object"

\* C9 as stated: with the secret not configured, every POST gets no
\* outbound call and the configuration-error response (500, success false,
\* 'Service configuration error. Please contact support.').
C9_EveryPostConfigError ==
    (relay # << >> /\ NotConfigured /\ relay[1].req.method = "POST")
        => /\ relay[1].res.outbound = << >>
           /\ relay[1].res.status = 500
           /\ relay[1].res.body = ConfigError

\* C9 amended: with the secret not configured no request leads to an
\* outbound call, and every POST whose body is a JSON object with a
\* non-empty message and a non-empty userId gets the configuration-error
\* response.
C9_ConfigError ==
    (relay # << >> /\ NotConfigured)
        => /\ relay[1].res.outbound = << >>
           /\ (PostedObject /\ NonEmptyString(relay[1].req.message)
                            /\ NonEmptyString(relay[1].req.userId))
                => /\ relay[1].res.status = 500
                   /\ relay[1].res.body.success = Bool("false")
                   /\ relay[1].res.body.response =
                        Str(<<"Service configuration error. Please contact support.">>)
                   /\ relay[1].res.body.error = Undefined
                   /\ relay[1].res.body.details = Undefined

C9_Witness ==
    /\ relay # << >>
    /\ WEBHOOK_AUTH_TOKEN = Undefined
    /\ PostedObject
    /\ relay[1].req.message = Str(<<"hi">>)
    /\ relay[1].req.userId = Str(<<"u1">>)
    /\ relay[1].up.kind = "resp" /\ relay[1].up.ok
    /\ relay[1].res.status = 500

\* C10: a POST whose body is a JSON object in which message or userId is
\* missing or empty is answered 400 {error: 'Missing required fields'}, and
\* no outbound call is made for it.
C10_MissingFields ==
    (relay # << >> /\ PostedObject
       /\ (MissingOrEmpty(relay[1].req.message) \/ MissingOrEmpty(relay[1].req.userId)))
        => /\ relay[1].res.status = 400
           /\ relay[1].res.body.kind = "json"
           /\ relay[1].res.body.error = Str(<<"Missing required fields">>)
           /\ relay[1].res.body.success = Undefined
           /\ relay[1].res.body.response = Undefined
           /\ relay[1].res.body.details = Undefined
           /\ relay[1].res.outbound = << >>

C10_Witness ==
    /\ relay # << >>
    /\ PostedObject
    /\ WEBHOOK_AUTH_TOKEN = Str(<<"secret">>)
    /\ relay[1].req.message = Str(<<"hi">>)
    /\ relay[1].req.userId = Str(<< >>)
    /\ relay[1].up.kind = "resp" /\ relay[1].up.ok
    /\ relay[1].res.status = 400

\* the request relay[1] is a POST with valid fields, served with the secret
\* configured, so that the outbound call is made
Forwarded ==
    /\ relay # << >>
    /\ PostedObject
    /\ NonEmptyString(relay[1].req.message)
    /\ NonEmptyString(relay[1].req.userId)
    /\ ~NotConfigured

\* what the client receives of a response
ClientView(res) == [status |-> res.status, headers |-> res.headers, body |-> res.body]

\* C11 as stated: when the upstream call of a forwarded POST fails, by a
\* non-success status or because the endpoint is unreachable, the response
\* is 502 {success: false, response: 'Failed to process your message.
\* Please try again.'}.
C11_UpstreamFailureIs502 ==
    (Forwarded /\ (relay[1].up.kind = "throw" \/ ~relay[1].up.ok))
        => /\ relay[1].res.status = 502
           /\ relay[1].res.body = RelayFailure

\* the upstream call of relay[1] was answered with a non-success status
UpstreamRefused == Forwarded /\ relay[1].up.kind = "resp" /\ ~relay[1].up.ok

\* C12: when the upstream call is answered with a non-success status, the
\* response sent to the client is the one any other upstream error body
\* would give for the same request (status, headers and body alike), and
\* the upstream text is in the log of the handler.
C12_ErrorBodyNotLeaked ==
    UpstreamRefused
        => /\ \A other \in RelayUps :
                (other.kind = "resp" /\ ~other.ok)
                    => ClientView(Handler(relay[1].req, WEBHOOK_AUTH_TOKEN, other))
                         = ClientView(relay[1].res)
           /\ relay[1].res.log = <<"n8n webhook failed:">> \o relay[1].up.text

C12_Witness ==
    /\ UpstreamRefused
    /\ relay[1].up.text = <<"upstream error B">>
    /\ relay[1].res.status = 502
    /\ relay[1].res.log = <<"n8n webhook failed:", "upstream error B">>
    /\ \E other \in RelayUps :
         other.kind = "resp" /\ ~other.ok /\ other.text = <<"upstream error A">>

\* the upstream call of relay[1] was answered with a success status
UpstreamAccepted == Forwarded /\ relay[1].up.kind = "resp" /\ relay[1].up.ok

\* C13 as stated: every forwarded POST whose upstream call succeeds gets
\* 200 {success: true, response: r}, r being the reply field of the
\* upstream body, or the placeholder when that field is absent or empty.
C13_EverySuccessIs200 ==
    UpstreamAccepted
        => /\ relay[1].res.status = 200
           /\ relay[1].res.body =
                Success(IF MissingOrEmpty(relay[1].up.response)
                        THEN Str(<<"Message received and processed">>)
                        ELSE relay[1].up.response)

\* C13 amended: when the upstream call succeeds and its body parses to a
\* JSON object, the response is 200 {success: true, response: r}: r is the
\* reply field when that is a non-empty string, and the placeholder when it
\* is absent, null, the empty string or 0; r is never empty.
C13_SuccessReply ==
    (UpstreamAccepted /\ relay[1].up.body = "object")
        => /\ relay[1].res.status = 200
           /\ relay[1].res.body.kind = "json"
           /\ relay[1].res.body.success = Bool("true")
           /\ relay[1].res.body.error = Undefined
           /\ relay[1].res.body.details = Undefined
           /\ NonEmptyString(relay[1].up.response)
                => relay[1].res.body.response = relay[1].up.response
           /\ (MissingOrEmpty(relay[1].up.response) \/ relay[1].up.response = Num("0"))
                => relay[1].res.body.response = Str(<<"Message received and processed">>)
           /\ NonEmptyString(relay[1].res.body.response)

C13_Witness ==
    /\ UpstreamAccepted
    /\ relay[1].up.body = "object"
    /\ relay[1].up.response = Str(<< >>)
    /\ relay[1].res.status = 200
    /\ relay[1].res.body.response = Str(<<"Message received and processed">>)

\* C14: every response of the Relay Service, on every path (preflight,
\* 400, 500 configuration error, 502, 200, 500 internal error), carries the
\* three cross-origin headers with the values of corsHeaders.
C14_CorsOnEveryResponse ==
    relay # << >>
        => \A k \in {"AllowOrigin", "AllowMethods", "AllowHeaders"} :
               /\ k \in DOMAIN relay[1].res.headers
               /\ relay[1].res.headers[k] = corsHeaders[k]

C14_Witness ==
    /\ relay # << >>
    /\ relay[1].req.method = "POST"
    /\ relay[1].req.body = "invalid"
    /\ relay[1].res.status = 500
    /\ relay[1].res.body.error = Str(<<"Internal server error">>)
    /\ relay[1].res.headers.AllowOrigin = "*"
    /\ relay[1].res.headers.ContentType = "application/json"

\* C15: an OPTIONS request is answered 200 with no body, whatever the
\* secret and the request body are: the body is not read (an unreadable
\* body does not lead to the catch block), nothing is logged and no
\* outbound call is made.
C15_Preflight ==
    (relay # << >> /\ relay[1].req.method = "OPTIONS")
        => /\ relay[1].res.status = 200
           /\ relay[1].res.body = NoBody
           /\ relay[1].res.outbound = << >>
           /\ relay[1].res.log = << >>

C15_Witness ==
    /\ relay # << >>
    /\ relay[1].req.method = "OPTIONS"
    /\ relay[1].req.body = "invalid"
    /\ WEBHOOK_AUTH_TOKEN = Undefined
    /\ relay[1].res.status = 200
    /\ relay[1].res.body.kind = "none"

\* the sends that have issued their insert
Inserting == {i \in DOMAIN sends : sends[i].inserts > 0}

\* C16: no layer retries.  Every accepted send has issued one relay request
\* and at most one insert, the store holds at most one row of the user per
\* issued insert, and the relay makes at most one outbound call for that
\* request whatever the endpoint does; a send that is done (failed or not)
\* issues nothing more, a failure writes nothing, and a new send starts
\* only by an accepted call of sendMessage.
C16_NoRetry ==
    /\ [](\A i \in DOMAIN sends :
            /\ sends[i].fetches = 1
            /\ sends[i].inserts <= 1
            /\ \A up \in Ups :
                 Len(Handler(RelayRequest(sends[i].userMessage, sends[i].user),
                             WEBHOOK_AUTH_TOKEN, up).outbound) <= 1)
    /\ [](Cardinality({k \in DOMAIN store : store[k].user_id = user})
            <= Cardinality(Inserting))
    /\ [][/\ \A i \in DOMAIN sends :
               /\ sends[i].pc = "done" => sends'[i] = sends[i]
               /\ Finalizes(i, "error")
                    => /\ sends'[i].fetches = sends[i].fetches
                       /\ sends'[i].inserts = sends[i].inserts
                       /\ store' = store
          /\ Len(sends') > Len(sends) => event' = "sendMessage"]_vars

C16_Witness ==
    /\ Len(sends) = 2
    /\ sends[1].finalized = <<"error">>
    /\ sends[1].fetches = 1
    /\ sends[1].inserts = 0
    /\ sends[2].userMessage = sends[1].userMessage
    /\ sends[2].pc = "insert"
    /\ WEBHOOK_AUTH_TOKEN = Str(<<"secret">>)

\* the sends with the relay call or the store write outstanding
InFlight == {i \in DOMAIN sends : sends[i].pc # "done"}

\* C17 as stated: at most one send is in flight at any time, and the rows
\* of the sends are written to the store in the order of submission, also
\* when the user leaves the chat view and comes back during a send.
C17_OneInFlight ==
    /\ Cardinality(InFlight) <= 1
    /\ \A i, j \in DOMAIN sends :
         (i < j /\ sends[j].saved # << >>)
            => /\ sends[i].pc \in {"inserted", "done"}
               /\ sends[i].saved # << >>
                    => sends[i].saved[1].created_at < sends[j].saved[1].created_at

FinalEntry(i, how) ==
    IF how = "success" THEN sends[i].saved[1]
    ELSE [sends[i].temp EXCEPT !.response = ErrorReply]

\* C19 as stated: the updater that finalizes a send puts the final entry at
\* the index the provisional entry got when it was submitted, also when
\* loadChatHistory has changed the list in between.
C19_ReplacedInPlace ==
    [][\A i \in DOMAIN sends : \A how \in {"success", "error"} :
         (Finalizes(i, how) /\ Live(sends[i].inst))
            => /\ sends[i].before + 1 <= Len(messages')
               /\ messages'[sends[i].before + 1] = FinalEntry(i, how)]_vars

\* the temporary ids drawn so far
TempIds == {sends[i].temp.id : i \in DOMAIN sends}

\* C20: a temporary id is never a store id.  The value of every insert has
\* no id field, no row of the store has the id of a provisional entry, and
\* the success updater leaves the whole returned row, under its store id,
\* at the end of the list and no entry under the temporary id.
C20_TempIdNeverStored ==
    /\ [](\A i \in DOMAIN sends :
            "id" \notin DOMAIN InsertValue(sends[i].user, sends[i].userMessage,
                                           sends[i].assistantResponse))
    /\ [](\A k \in DOMAIN store : store[k].id \notin TempIds)
    /\ [][\A i \in DOMAIN sends :
            (Finalizes(i, "success") /\ Live(sends[i].inst))
               => /\ messages'[Len(messages')] \in Range(store')
                  /\ messages'[Len(messages')] = sends[i].saved[1]
                  /\ messages'[Len(messages')].id \notin TempIds
                  /\ \A k \in DOMAIN messages' :
                       messages'[k].id # sends[i].temp.id]_vars

C20_Witness ==
    \E i \in DOMAIN sends :
        /\ sends[i].finalized = <<"success">>
        /\ Live(sends[i].inst)
        /\ \E k \in DOMAIN store : store[k] = sends[i].saved[1] /\ store[k].id = 3
        /\ sends[i].temp.id = 2
        /\ WithId(messages, 3) # {}
        /\ WithId(messages, 2) = {}

\* C21 as stated: in every state where the relay call of a send is
\* outstanding, the list of the Chat that made it (while it is mounted)
\* holds the provisional entry of that send.
C21_ProvisionalWhileCalling ==
    \A i \in DOMAIN sends :
        (sends[i].pc = "fetch" /\ Live(sends[i].inst))
            => \E k \in DOMAIN messages : messages[k] = sends[i].temp

\* the sends of owner uid that ended in success
Persisted(uid) ==
    {i \in DOMAIN sends : sends[i].finalized = <<"success">> /\ sends[i].user = uid}

\* C22: round trip.  A select of loadChatHistory that succeeds returns the
\* row of every send of that owner that ended in success, with the prompt
\* of the send and the reply its success path showed; and when the load
\* returns to the mounted Chat the list is what the select returned.
C22_RoundTrip ==
    [][\A k \in DOMAIN loads :
         /\ (loads[k].pc = "select" /\ loads'[k].pc = "selected" /\ ~loads'[k].error)
              => \A i \in Persisted(loads[k].user) :
                    \E n \in DOMAIN loads'[k].data :
                        /\ loads'[k].data[n].id = sends[i].saved[1].id
                        /\ loads'[k].data[n].message = sends[i].userMessage
                        /\ loads'[k].data[n].response = sends[i].assistantResponse
                        /\ loads'[k].data[n].response = sends[i].saved[1].response
         /\ (loads[k].pc = "selected" /\ loads'[k].pc = "done"
               /\ ~loads[k].error /\ Live(loads[k].inst))
              => messages' = loads[k].data]_vars

\* the round trip made: a send of the first mount succeeded, the Chat was
\* mounted again, and its load put the row in the list
C22_Witness ==
    /\ Len(sends) = 1
    /\ sends[1].finalized = <<"success">>
    /\ sends[1].inst = 1
    /\ inst = 2
    /\ currentView = "chat"
    /\ ~loadingHistory
    /\ Len(loads) = 2
    /\ loads[2].pc = "done"
    /\ Len(messages) = 1
    /\ messages[1] = sends[1].saved[1]
    /\ messages[1].message = <<"a">>
    /\ messages[1].response = Str(<<"R">>)

\* the step is the select of load k, and it succeeded
Selects(k) == loads[k].pc = "select" /\ loads'[k].pc = "selected" /\ ~loads'[k].error

\* the step is the return of load k to the mounted Chat
Returns(k) == loads[k].pc = "selected" /\ loads'[k].pc = "done" /\ Live(loads[k].inst)

\* a list in ascending order of created_at
Ascending(list) ==
    \A a, b \in DOMAIN list : a < b => list[a].created_at <= list[b].created_at

\* the select returns exactly the rows of the owner, each once, ascending
ExactHistory(k) ==
    Selects(k)
        => /\ Range(loads'[k].data) = {r \in Range(store) : r.user_id = loads[k].user}
           /\ Len(loads'[k].data) = Cardinality(Range(loads'[k].data))
           /\ Ascending(loads'[k].data)

C24_PendingUntilReturn ==
    \A i \in DOMAIN sends :
        sends[i].pc = "fetch"
            => /\ i = Len(sends)
               /\ (currentView = "chat" /\ ~loadingHistory) => loading

\* handling relay[1] threw: the request body could not be read as a JSON
\* object, the outbound fetch rejected, or the body of a 2xx upstream
\* answer could not be read as a JSON object
Threw ==
    /\ relay # << >>
    /\ relay[1].req.method = "POST"
    /\ \/ relay[1].req.body \in {"invalid", "null"}
       \/ /\ Forwarded
          /\ \/ relay[1].up.kind = "throw"
             \/ /\ relay[1].up.kind = "resp"
                /\ relay[1].up.ok
                /\ relay[1].up.body \in {"invalid", "null"}

\* C25: every request gets a response, with one of the statuses of the
\* handler; a POST whose handling threw gets 500 {error: 'Internal server
\* error', details: <message>} with a non-empty message; and with the
\* secret missing a valid POST gets the configuration-error response while
\* every other request is answered as it is with the secret set.
C25_NoEscape ==
    relay # << >>
        => /\ relay[1].res.status \in {200, 400, 500, 502}
           /\ relay[1].res.body.kind \in {"none", "json"}
           /\ Threw
                => /\ relay[1].res.status = 500
                   /\ relay[1].res.body.kind = "json"
                   /\ relay[1].res.body.error = Str(<<"Internal server error">>)
                   /\ relay[1].res.body.details.t = "string"
                   /\ relay[1].res.body.details.v # << >>
                   /\ relay[1].res.body.success = Undefined
                   /\ relay[1].res.body.response = Undefined
           /\ NotConfigured
                => IF PostedObject /\ ~FieldsMissing(relay[1].req.message, relay[1].req.userId)
                   THEN relay[1].res.status = 500 /\ relay[1].res.body = ConfigError
                   ELSE ClientView(relay[1].res)
                          = ClientView(Handler(relay[1].req, Str(<<"secret">>), relay[1].up))

C25_Witness ==
    /\ Threw
    /\ Forwarded
    /\ relay[1].up.kind = "resp"
    /\ relay[1].up.ok
    /\ relay[1].up.body = "invalid"
    /\ relay[1].res.status = 500
    /\ relay[1].res.body.details = Str(<<"Unexpected token">>)
    /\ Len(relay[1].res.outbound) = 1

\* the rows of the store are kept as they are: the table only grows
StoreKept == Len(store') >= Len(store) /\ SubSeq(store', 1, Len(store)) = store

\* C26 as stated: no step deletes or updates a row of the store, and no
\* step of a mounted Chat (a submit, a finalization, a loadChatHistory)
\* removes a finalized entry, success or error, from its list.
C26_NeverDeleted ==
    [][/\ StoreKept
       /\ (currentView = "chat" /\ currentView' = "chat" /\ inst' = inst)
            => \A k \in DOMAIN messages :
                 messages[k].response # Null
                    => \E n \in DOMAIN messages' : messages'[n] = messages[k]]_vars

\* C27 as stated: in every state the entries of the list have different
\* ids, store ids included.
C27_UniqueIds ==
    \A a, b \in DOMAIN messages : a # b => messages[a].id # messages[b].id

\* C28: when every await of sendMessage settles, every accepted send comes
\* to its end (it is not outstanding forever) and the pending flag, once
\* set, is cleared (it is not set forever); the flag is set only while a
\* send of the mounted Chat is outstanding; and with the flag clear a call
\* of sendMessage with a non-blank input is accepted and sets the flag.
C28_PendingClears ==
    /\ \A i \in 1..MaxSends : []<>(i \in DOMAIN sends => sends[i].pc = "done")
    /\ []<>(~loading)
    /\ [](loading => \E i \in DOMAIN sends :
                        sends[i].pc # "done" /\ Live(sends[i].inst))
    /\ [][(~loading /\ ~Blank(inputMessage) /\ SendMessageCalled)
             => event' = "sendMessage" /\ loading']_vars

\* a send that ended in success and a later one that ended by the store's
\* refusal, both in the mounted Chat, with the flag clear again
C28_Witness ==
    /\ Len(sends) = 2
    /\ sends[1].finalized = <<"success">>
    /\ sends[2].finalized = <<"error">>
    /\ sends[2].saveError
    /\ Live(sends[1].inst)
    /\ Live(sends[2].inst)
    /\ ~loading
    /\ FormRendered

\* the rows the controller has written: those of the signed-in user (the
\* table held none of them when the page was opened)
Written == {k \in DOMAIN store : store[k].user_id = user}

\* C29: every row the controller writes is the row of one send: its owner
\* is the user of that send, its prompt the trimmed, non-blank input of
\* that send, its reply a non-empty string, which is the relay's reply or
\* 'No response received' when the relay's answer has none; the request of
\* the send to the relay carries that prompt and that owner; and an
\* accepted call of sendMessage takes the trimmed input as the prompt.
C29_RowsWritten ==
    /\ [](\A k \in Written :
            \E i \in DOMAIN sends :
                /\ sends[i].saved = <<store[k]>>
                /\ store[k].user_id = sends[i].user
                /\ store[k].message = sends[i].userMessage
                /\ store[k].message = sends[i].temp.message
                /\ store[k].message # << >>
                /\ Trim(store[k].message) = store[k].message
                /\ store[k].response = sends[i].assistantResponse
                /\ NonEmptyString(store[k].response)
                /\ store[k].response \in {Str(<<"R">>), Str(<<"No response received">>)})
    /\ [](\A i \in DOMAIN sends :
            /\ sends[i].user = user
            /\ RelayRequest(sends[i].userMessage, sends[i].user).message
                 = Str(sends[i].temp.message)
            /\ RelayRequest(sends[i].userMessage, sends[i].user).userId
                 = Str(<<sends[i].temp.user_id>>))
    /\ [][Len(sends') > Len(sends)
            => sends'[Len(sends')].userMessage = Trim(inputMessage)]_vars
    /\ [][\A i \in DOMAIN sends :
            (sends[i].pc = "fetch" /\ sends'[i].pc = "insert")
               => \/ sends'[i].assistantResponse = Str(<<"R">>)
                  \/ /\ i = 1
                     /\ sends'[i].assistantResponse = Str(<<"No response received">>)]_vars

\* the first send met an answer without a reply, the second the relay's
\* reply, and both rows are written
C29_Witness ==
    /\ Len(sends) = 2
    /\ Len(store) = 3
    /\ store[2] = sends[1].saved[1]
    /\ store[2].response = Str(<<"No response received">>)
    /\ store[3] = sends[2].saved[1]
    /\ store[3].response = Str(<<"R">>)
    /\ store[2].message = <<"a">>
    /\ store[2].user_id = "u1"
====
